---- MODULE Spec2Model ----
(***************************************************************************)
(* A model of LLMService (the search-result evaluation pipeline): the      *)
(* judge call per result, the parsing of the judge's answer, the dataset   *)
(* scorer loop, the expected-utility metric and the report assembly.       *)
(*                                                                         *)
(* Three specifications share the module:                                  *)
(*   Spec       evaluateSearchResults / scoreDataset as a state machine    *)
(*   EUSpec     expectedUtilityOutOf10 applied to bounded grade sequences  *)
(*   ParseSpec  extractScore applied to bounded texts                      *)
(*                                                                         *)
(* Numbers.  JavaScript numbers are IEEE doubles.  The metric is modelled  *)
(* in exact rational arithmetic: alpha = 9/10, every alpha^i is scaled by  *)
(* 10^(L-1) so that the sums are integers, and an integer too wide for a   *)
(* 32-bit word is kept as two limbs <<hi, lo>> of base LimbBase.           *)
(***************************************************************************)
EXTENDS Integers, Sequences, FiniteSets, TLC

VARIABLES
    \* ---- Spec: one call of the service
    hasApiKey,     \* this.hasApiKey, set by the constructor
    entry,         \* which method the caller invoked
    results1,      \* argument results1 (or results, for scoreDataset)
    results2,      \* argument results2
    pc,            \* position of the call
    phase,         \* 1 or 2: which scoreDataset call of evaluateSearchResults runs
    capped,        \* scoreDataset: const capped
    i,             \* scoreDataset: loop index (0-based, as in the source)
    total,         \* scoreDataset: let total
    counts,        \* scoreDataset: const counts
    errors,        \* scoreDataset: let errors
    durationMs,    \* scoreDataset: let durationMs
    perDoc,        \* scoreDataset: const perDoc
    d1,            \* evaluateSearchResults: const d1 (NoValue until returned)
    d2,            \* evaluateSearchResults: const d2
    report,        \* the value the call returned (NoValue until it returns)
    outstanding,   \* judge calls started and not yet completed or failed
    calls,         \* history: the judge calls made, in order
    thrown,        \* history: judge calls of the running dataset that threw
    \* ---- EUSpec
    euScores,      \* a grade sequence
    euValue,       \* expectedUtilityOutOf10(euScores), once applied
    \* ---- ParseSpec
    rawChunks,     \* the pieces the text is made of
    parsed         \* extractScore(text), once applied

mainVars == <<hasApiKey, entry, results1, results2, pc, phase, capped, i, total,
              counts, errors, durationMs, perDoc, d1, d2, report, outstanding,
              calls, thrown>>
euVars == <<euScores, euValue>>
parseVars == <<rawChunks, parsed>>
vars == <<mainVars, euVars, parseVars>>

NoValue == [none |-> TRUE]

(***************************************************************************)
(* Program constants                                                       *)
(***************************************************************************)
EVAL_DEPTH == 10
\* EU_ALPHA = 0.9, as the fraction AlphaNum / AlphaDen
AlphaNum == 9
AlphaDen == 10

(***************************************************************************)
(* Exact arithmetic on wide integers and rationals                         *)
(***************************************************************************)
LimbBase == 100000

Min(a, b) == IF a <= b THEN a ELSE b

RECURSIVE IntPow(_, _)
IntPow(b, e) == IF e = 0 THEN 1 ELSE b * IntPow(b, e - 1)

\* <<hi, lo>> stands for hi * LimbBase + lo; BigNorm carries so that
\* 0 <= lo < LimbBase, and sums and products are carried when they are compared
BigNorm(a) == <<a[1] + (a[2] \div LimbBase), a[2] % LimbBase>>
BigOf(n) == BigNorm(<<0, n>>)
BigAdd(a, b) == <<a[1] + b[1], a[2] + b[2]>>
BigScale(a, k) == <<a[1] * k, a[2] * k>>
\* of carried numbers
BigLeq(a, b) == a[1] < b[1] \/ (a[1] = b[1] /\ a[2] <= b[2])
BigLess(a, b) == BigLeq(a, b) /\ a # b

\* a rational n/d, d > 0, n and d carried
RatOfInt(k) == [n |-> BigOf(k), d |-> BigOf(1)]
RatEqInt(r, k) == r.n = BigNorm(BigScale(r.d, k))
RatLeqInt(r, k) == BigLeq(r.n, BigNorm(BigScale(r.d, k)))
RatGeqInt(r, k) == BigLeq(BigNorm(BigScale(r.d, k)), r.n)
\* compares two rationals of the same denominator (false otherwise)
RatLeq(a, b) == a.d = b.d /\ BigLeq(a.n, b.n)
RatLess(a, b) == a.d = b.d /\ BigLess(a.n, b.n)

(***************************************************************************)
(* The metric                                                              *)
(***************************************************************************)
\* gain with the constant term dropped: Math.pow(2, rel)
gain_NoMinusOne(rel) == IntPow(2, rel)

\* gain written with ^ for the power: rel ^ 2 - 1 is rel XOR 1 in JavaScript
gain_Xor(rel) == IF rel % 2 = 0 THEN rel + 1 ELSE rel - 1

\* a missing position read as the best grade instead of 0
At0_MissingIsBest(scores, k) == IF k + 1 <= Len(scores) THEN scores[k + 1] ELSE 3

\* scores[i] ?? 0, with the source's 0-based index
At0(scores, k) == IF k + 1 <= Len(scores) THEN scores[k + 1] ELSE 0

\* Math.pow(alpha, k) scaled by AlphaDen^(L-1), tabulated for L <= EVAL_DEPTH
PowAlphaTable ==
    [L \in 1..EVAL_DEPTH |->
        [k \in 0..(L - 1) |-> BigOf(IntPow(AlphaNum, k) * IntPow(AlphaDen, L - 1 - k))]]
PowAlphaScaled(k, L) == PowAlphaTable[L][k]

\* gain(rel) = Math.pow(2, rel) - 1
GainOfGrade == [rel \in 0..3 |-> IntPow(2, rel) - 1]
gain(rel) == IF rel \in DOMAIN GainOfGrade THEN GainOfGrade[rel] ELSE IntPow(2, rel) - 1

\* the loop of expectedUtilityOutOf10: [num, denomP] after the iterations 0..k-1
RECURSIVE EULoop(_, _, _)
EULoop(scores, L, k) ==
    IF k = 0 THEN [num |-> BigOf(0), denomP |-> BigOf(0)]
    ELSE LET prev == EULoop(scores, L, k - 1)
             p == PowAlphaScaled(k - 1, L)
             rel == At0(scores, k - 1)
         IN  [num |-> BigAdd(prev.num, BigScale(p, gain(rel))),
              denomP |-> BigAdd(prev.denomP, p)]

\* the normalisation by the maximal gain forgotten
expectedUtilityOutOf10_NoMaxGain(scores, L) ==
    LET acc == EULoop(scores, L, L)
        denom == BigNorm(acc.denomP)
    IN  IF BigLess(BigOf(0), denom)
        THEN [n |-> BigNorm(BigScale(BigNorm(acc.num), 10)), d |-> denom]
        ELSE RatOfInt(0)

expectedUtilityOutOf10(scores, L) ==
    LET acc == EULoop(scores, L, L)
        denom == BigNorm(BigScale(BigNorm(acc.denomP), gain(3)))
    IN  IF BigLess(BigOf(0), denom)
        THEN [n |-> BigNorm(BigScale(BigNorm(acc.num), 10)), d |-> denom]
        ELSE RatOfInt(0)

\* the grades of `pooled`, best first
SortDescending(pooled) ==
    LET n(g) == Cardinality({k \in 1..Len(pooled) : pooled[k] = g})
    IN  [k \in 1..n(3) |-> 3] \o [k \in 1..n(2) |-> 2] \o [k \in 1..n(1) |-> 1] \o [k \in 1..n(0) |-> 0]

\* the metric normalised by the ideal ranking of the pooled grades (the way of
\* the commented-out ndcgAt) instead of by the maximal gain
computeMetrics_PooledIdeal(scores, pooled) ==
    LET sys == BigNorm(EULoop(scores, EVAL_DEPTH, EVAL_DEPTH).num)
        ideal == BigNorm(EULoop(SortDescending(pooled), EVAL_DEPTH, EVAL_DEPTH).num)
    IN  [nEU |-> IF BigLess(BigOf(0), ideal)
                 THEN [n |-> BigNorm(BigScale(sys, 10)), d |-> ideal]
                 ELSE RatOfInt(0)]

computeMetrics(scores, pooled) ==
    [nEU |-> expectedUtilityOutOf10(scores, EVAL_DEPTH)]

(***************************************************************************)
(* Variables a specification does not use are parked at fixed values       *)
(***************************************************************************)
MainParked ==
    /\ hasApiKey = FALSE /\ entry = "parked" /\ results1 = <<>> /\ results2 = <<>>
    /\ pc = "parked" /\ phase = 0 /\ capped = <<>> /\ i = 0 /\ total = 0
    /\ counts = <<>> /\ errors = 0 /\ durationMs = 0 /\ perDoc = <<>>
    /\ d1 = NoValue /\ d2 = NoValue /\ report = NoValue /\ outstanding = 0
    /\ calls = <<>> /\ thrown = <<0, 0>>
EUParked == euScores = <<>> /\ euValue = NoValue
ParseParked == rawChunks = <<>> /\ parsed = NoValue

(***************************************************************************)
(* EUSpec: the metric on every grade sequence of at most EVAL_DEPTH grades *)
(***************************************************************************)
Grades == 0..3

EUInit ==
    /\ MainParked /\ ParseParked
    /\ euScores = <<>>
    /\ euValue = expectedUtilityOutOf10(<<>>, EVAL_DEPTH)

EUAppend ==
    /\ Len(euScores) < EVAL_DEPTH
    /\ \E g \in Grades :
         /\ euScores' = Append(euScores, g)
         /\ euValue' = expectedUtilityOutOf10(euScores', EVAL_DEPTH)
    /\ UNCHANGED <<mainVars, parseVars>>

EUNext == EUAppend
EUSpec == EUInit /\ [][EUNext]_vars

(***************************************************************************)
(* MonoSpec: the grade sequences of at most EVAL_DEPTH grades in which the *)
(* grade changes from one position to the next at most MaxChanges times    *)
(***************************************************************************)
MaxChanges == 2

Changes(scores) == Cardinality({k \in 1..(Len(scores) - 1) : scores[k] # scores[k + 1]})

MonoAppend ==
    /\ Len(euScores) < EVAL_DEPTH
    /\ \E g \in Grades :
         /\ Changes(Append(euScores, g)) <= MaxChanges
         /\ euScores' = Append(euScores, g)
         /\ euValue' = expectedUtilityOutOf10(euScores', EVAL_DEPTH)
    /\ UNCHANGED <<mainVars, parseVars>>

MonoNext == MonoAppend
MonoSpec == EUInit /\ [][MonoNext]_vars

(***************************************************************************)
(* Texts are sequences of one-character strings                            *)
(***************************************************************************)
SpaceChars == {" ", "\t", "\n", "\r"}
DigitChars == <<"0", "1", "2", "3", "4", "5", "6", "7", "8", "9">>
UpperChars == <<"A", "B", "C", "D", "E", "F", "G", "H", "I", "J", "K", "L", "M",
                "N", "O", "P", "Q", "R", "S", "T", "U", "V", "W", "X", "Y", "Z">>
LowerChars == <<"a", "b", "c", "d", "e", "f", "g", "h", "i", "j", "k", "l", "m",
                "n", "o", "p", "q", "r", "s", "t", "u", "v", "w", "x", "y", "z">>
Range(f) == {f[k] : k \in DOMAIN f}

\* \s
IsSpace(c) == c \in SpaceChars
\* \w
WordCharSet == Range(DigitChars) \cup Range(UpperChars) \cup Range(LowerChars) \cup {"_"}
IsWord(c) == c \in WordCharSet
\* the folding of the i flag
UpperCharSet == Range(UpperChars)
Lower(c) ==
    IF c \in UpperCharSet
    THEN LowerChars[CHOOSE k \in DOMAIN UpperChars : UpperChars[k] = c]
    ELSE c

\* s.startsWith(prefix)
StartsWith(s, prefix) ==
    /\ Len(prefix) <= Len(s)
    /\ \A k \in 1..Len(prefix) : s[k] = prefix[k]

\* s.slice(from, to) of an array or a string, 0 <= from <= to
Slice(s, from, to) ==
    IF from >= Min(to, Len(s)) THEN <<>> ELSE SubSeq(s, from + 1, Min(to, Len(s)))

(***************************************************************************)
(* extractScore: /##\s*final\s*score\s*:\s*([0-3])\b/i                     *)
(***************************************************************************)
RxHashes == <<"#", "#">>
RxFinal == <<"f", "i", "n", "a", "l">>
RxScore == <<"s", "c", "o", "r", "e">>
RxColon == <<":">>
RxDigitClass == {"0", "1", "2", "3"}

\* the position after the longest run of \s from position p (1-based)
RECURSIVE SkipSpaces(_, _)
SkipSpaces(t, p) ==
    IF p <= Len(t) /\ IsSpace(t[p]) THEN SkipSpaces(t, p + 1) ELSE p

\* the literal lit at position p, letters compared case-insensitively
RECURSIVE LiteralFrom(_, _, _, _)
LiteralFrom(t, p, lit, k) ==
    \/ k > Len(lit)
    \/ /\ Lower(t[p + k - 1]) = lit[k]
       /\ LiteralFrom(t, p, lit, k + 1)
LiteralAt(t, p, lit) ==
    /\ p + Len(lit) - 1 <= Len(t)
    /\ LiteralFrom(t, p, lit, 1)

\* the pattern without its final \b
WordBoundaryAfter_None(t, p) == TRUE

\* \b after the character at position p, which is a word character
WordBoundaryAfter(t, p) == p = Len(t) \/ ~IsWord(t[p + 1])

NoMatch == [matched |-> FALSE, group1 |-> ""]

\* the pattern tried at position s: the match and its capture group
MatchAt(t, s) ==
    IF ~LiteralAt(t, s, RxHashes) THEN NoMatch
    ELSE LET p1 == SkipSpaces(t, s + Len(RxHashes)) IN
    IF ~LiteralAt(t, p1, RxFinal) THEN NoMatch
    ELSE LET p2 == SkipSpaces(t, p1 + Len(RxFinal)) IN
    IF ~LiteralAt(t, p2, RxScore) THEN NoMatch
    ELSE LET p3 == SkipSpaces(t, p2 + Len(RxScore)) IN
    IF ~LiteralAt(t, p3, RxColon) THEN NoMatch
    ELSE LET p4 == SkipSpaces(t, p3 + Len(RxColon)) IN
    IF ~(p4 <= Len(t) /\ t[p4] \in RxDigitClass) THEN NoMatch
    ELSE IF ~WordBoundaryAfter(t, p4) THEN NoMatch
    ELSE [matched |-> TRUE, group1 |-> t[p4]]

\* RegExp.prototype.exec without the g flag: the leftmost match, or null
RECURSIVE RegexExecFrom(_, _)
RegexExecFrom(t, s) ==
    IF s > Len(t) THEN NoMatch
    ELSE LET m == MatchAt(t, s)
         IN  IF m.matched THEN m ELSE RegexExecFrom(t, s + 1)
RegexExec(t) == RegexExecFrom(t, 1)

\* parseInt(c, 10) of a one-character string
ParseInt(c) ==
    IF c \in Range(DigitChars)
    THEN [nan |-> FALSE, val |-> (CHOOSE k \in DOMAIN DigitChars : DigitChars[k] = c) - 1]
    ELSE [nan |-> TRUE, val |-> 0]

extractScore(rawText) ==
    LET match == RegexExec(rawText) IN
    IF ~match.matched THEN -1
    ELSE LET n == ParseInt(match.group1) IN
         IF n.nan THEN -1
         ELSE IF n.val < 0 \/ n.val > 3 THEN -1
         ELSE n.val

(***************************************************************************)
(* ParseSpec: extractScore on every text of at most MaxChunks pieces       *)
(***************************************************************************)
MaxChunks == 4

\* the pieces, by name
ChunkText ==
    [marker  |-> <<"#", "#", "f", "i", "n", "a", "l", " ", "s", "c", "o", "r", "e", ":", " ">>,
     loose   |-> <<"#", "#", " ", "F", "I", "N", "A", "L", "\t", "S", "c", "o", "r", "e", " ", ":">>,
     nocolon |-> <<"#", "#", "f", "i", "n", "a", "l", " ", "s", "c", "o", "r", "e", " ">>,
     g0 |-> <<"0">>, g1 |-> <<"1">>, g2 |-> <<"2">>, g3 |-> <<"3">>,
     four |-> <<"4">>, x |-> <<"x">>, sp |-> <<" ">>]
MarkerChunks == {"marker", "loose"}
GradeChunks == {"g0", "g1", "g2", "g3"}
SpaceChunks == {"sp"}
\* pieces that begin with a word character
WordChunks == GradeChunks \cup {"four", "x"}
Chunks == DOMAIN ChunkText

RECURSIVE TextOf(_)
TextOf(names) ==
    IF names = <<>> THEN <<>> ELSE ChunkText[Head(names)] \o TextOf(Tail(names))

ParseInit ==
    /\ MainParked /\ EUParked
    /\ rawChunks = <<>>
    /\ parsed = extractScore(TextOf(<<>>))

ParseAppend ==
    /\ Len(rawChunks) < MaxChunks
    /\ \E c \in Chunks :
         /\ rawChunks' = Append(rawChunks, c)
         /\ parsed' = extractScore(TextOf(rawChunks'))
    /\ UNCHANGED <<mainVars, euVars>>

ParseNext == ParseAppend
ParseSpec == ParseInit /\ [][ParseNext]_vars

(***************************************************************************)
(* The judge.  generateText is the environment: what it does for a result  *)
(* is part of the input, so a result is named by the outcome its judge     *)
(* call has: the text returned, or the error thrown, and the time elapsed. *)
(***************************************************************************)
ErrPrefix == <<"E", "R", "R", ":">>
NoText == <<>>

JudgeOutcome ==
    [r0 |-> [threw |-> FALSE, text |-> ChunkText.marker \o <<"0">>, err |-> <<>>, ms |-> 1],
     r1 |-> [threw |-> FALSE, text |-> ChunkText.loose \o <<"1">>, err |-> <<>>, ms |-> 1],
     r2 |-> [threw |-> FALSE, text |-> <<"x", "\n">> \o ChunkText.marker \o <<"2", ".">>,
             err |-> <<>>, ms |-> 1],
     r3 |-> [threw |-> FALSE, text |-> ChunkText.marker \o <<"3">>, err |-> <<>>, ms |-> 0],
     junk |-> [threw |-> FALSE, text |-> <<"x">>, err |-> <<>>, ms |-> 1],
     outOfRange |-> [threw |-> FALSE, text |-> ChunkText.marker \o <<"4">>, err |-> <<>>, ms |-> 1],
     empty |-> [threw |-> FALSE, text |-> NoText, err |-> <<>>, ms |-> 1],
     errText |-> [threw |-> FALSE, text |-> ErrPrefix \o <<" ">> \o ChunkText.marker \o <<"2">>,
                  err |-> <<>>, ms |-> 1],
     boom |-> [threw |-> TRUE, text |-> NoText, err |-> <<"x">>, ms |-> 2]]
Results == DOMAIN JudgeOutcome

(***************************************************************************)
(* scoreOne and the body of scoreDataset's loop                            *)
(***************************************************************************)
\* scoreOne when generateText returns: text = result?.text || ""
ScoreOneReturned(outcome) ==
    LET text == outcome.text
        score == extractScore(text)
    IN  [score |-> IF score = -1 THEN 0 ELSE score,
         raw |-> text,
         durationMs |-> outcome.ms]

\* scoreOne when generateText throws: the catch block
ScoreOneCaught(outcome) ==
    [score |-> 0, raw |-> ErrPrefix \o outcome.err, durationMs |-> outcome.ms]

\* /^##/m.test(raw)
HasHashLine(raw) ==
    \E p \in 1..Len(raw) :
        /\ LiteralAt(raw, p, RxHashes)
        /\ (p = 1 \/ raw[p - 1] \in {"\n", "\r"})

ErrorsAfter(errs, raw) ==
    IF StartsWith(raw, ErrPrefix) \/ ~HasHashLine(raw)
    THEN (IF StartsWith(raw, ErrPrefix) THEN errs + 1 ELSE errs)
    ELSE errs

\* const s = (score < 0 || score > 3) ? 0 : score
ClampScore(score) == IF score < 0 \/ score > 3 THEN 0 ELSE score

\* the cap forgotten
CappedOf_NoCap(results) == results

\* results.slice(0, EVAL_DEPTH)
CappedOf(results) == Slice(results, 0, EVAL_DEPTH)

ZeroCounts == [g \in 0..3 |-> 0]

\* the locals of scoreDataset as it starts on `results`
EnterScoreDataset(results) ==
    /\ total' = 0
    /\ counts' = ZeroCounts
    /\ errors' = 0
    /\ durationMs' = 0
    /\ perDoc' = <<>>
    /\ capped' = CappedOf(results)
    /\ i' = 0

\* the loop body that skips the bookkeeping of counts for a failed call
LoopBody_FailureUncounted(one) ==
    LET s == ClampScore(one.score) IN
    /\ durationMs' = durationMs + one.durationMs
    /\ errors' = ErrorsAfter(errors, one.raw)
    /\ counts' = IF StartsWith(one.raw, ErrPrefix) THEN counts
                 ELSE [counts EXCEPT ![s] = counts[s] + 1]
    /\ total' = total + s
    /\ perDoc' = Append(perDoc, [index |-> i, score |-> s])
    /\ i' = i + 1

\* the loop body after scoreOne has returned `one`
LoopBody(one) ==
    LET s == ClampScore(one.score) IN
    /\ durationMs' = durationMs + one.durationMs
    /\ errors' = ErrorsAfter(errors, one.raw)
    /\ counts' = [counts EXCEPT ![s] = counts[s] + 1]
    /\ total' = total + s
    /\ perDoc' = Append(perDoc, [index |-> i, score |-> s])
    /\ i' = i + 1

\* the value scoreDataset returns
DatasetScore ==
    [total |-> total, counts |-> counts, errors |-> errors,
     durationMs |-> durationMs, perDoc |-> perDoc]

(***************************************************************************)
(* Report assembly                                                         *)
(***************************************************************************)
\* the fallback of the method's doc comment ("returns fallback scores of 0")
fallback_Zero ==
    [db1 |-> [score |-> RatOfInt(0), feedback |-> <<>>],
     db2 |-> [score |-> RatOfInt(0), feedback |-> <<>>],
     llmDuration |-> 0]

fallback ==
    [db1 |-> [score |-> RatOfInt(-1), feedback |-> <<>>],
     db2 |-> [score |-> RatOfInt(-1), feedback |-> <<>>],
     llmDuration |-> 0]

\* Array.prototype.sort((a, b) => a.index - b.index): a stable insertion sort
RECURSIVE InsertByIndex(_, _)
InsertByIndex(sorted, x) ==
    IF sorted = <<>> THEN <<x>>
    ELSE IF x.index < Head(sorted).index THEN <<x>> \o sorted
    ELSE <<Head(sorted)>> \o InsertByIndex(Tail(sorted), x)
RECURSIVE SortByIndex(_)
SortByIndex(docs) ==
    IF docs = <<>> THEN <<>>
    ELSE InsertByIndex(SortByIndex(SubSeq(docs, 1, Len(docs) - 1)), docs[Len(docs)])

\* (d.perDoc || []).sort(...).map(x => x.score).slice(0, EVAL_DEPTH)
RankLabels(d) ==
    LET sorted == SortByIndex(d.perDoc)
    IN  Slice([k \in 1..Len(sorted) |-> sorted[k].score], 0, EVAL_DEPTH)

\* the feedback string, kept as its parts (joined by " " in the source);
\* the empty string is the empty sequence
makeFeedback(agg, dbIndex, metrics) ==
    LET n == agg.counts[0] + agg.counts[1] + agg.counts[2] + agg.counts[3]
        head == <<[part |-> "docs", db |-> dbIndex, n |-> n, top |-> EVAL_DEPTH,
                   total |-> agg.total],
                  [part |-> "breakdown", c3 |-> agg.counts[3], c2 |-> agg.counts[2],
                   c1 |-> agg.counts[1], c0 |-> agg.counts[0]],
                  [part |-> "score", nEU |-> metrics.nEU]>>
    IN  IF agg.errors > 0
        THEN Append(head, [part |-> "note", errors |-> agg.errors])
        ELSE head

\* lines 62-91 of evaluateSearchResults, once d1 and d2 are known
AssembleReport(dd1, dd2) ==
    LET llmDuration == dd1.durationMs + dd2.durationMs
        s1 == RankLabels(dd1)
        s2 == RankLabels(dd2)
        pooled == s1 \o s2
        m1 == computeMetrics(s1, pooled)
        m2 == computeMetrics(s2, pooled)
    IN  [db1 |-> [score |-> m1.nEU, feedback |-> makeFeedback(dd1, 1, m1)],
         db2 |-> [score |-> m2.nEU, feedback |-> makeFeedback(dd2, 2, m2)],
         llmDuration |-> llmDuration]

(***************************************************************************)
(* Spec: one call of evaluateSearchResults, or of scoreDataset alone       *)
(***************************************************************************)
MaxPrefix == 2
MaxExtra == 1

RECURSIVE SeqsUpTo(_, _)
SeqsUpTo(S, n) ==
    IF n = 0 THEN {<<>>}
    ELSE LET shorter == SeqsUpTo(S, n - 1)
         IN  shorter \cup {Append(q, x) : q \in {r \in shorter : Len(r) = n - 1}, x \in S}

Repeat(x, n) == [k \in 1..n |-> x]

\* a result list: any short list, or a short list followed by the same result
\* again and again up to the evaluation depth or beyond it
FillResults == {"r3", "boom"}
ResultLists ==
    LET prefixes == SeqsUpTo(Results, MaxPrefix)
    IN  prefixes \cup
        {q \o Repeat(x, n - Len(q)) :
            q \in prefixes, x \in FillResults, n \in {EVAL_DEPTH, EVAL_DEPTH + MaxExtra}}
\* the lists the other argument is drawn from
OtherLists == {<<>>, <<"boom", "r2">>, Repeat("r1", EVAL_DEPTH + MaxExtra)}

Init ==
    /\ EUParked /\ ParseParked
    /\ entry \in {"evaluateSearchResults", "scoreDataset"}
    /\ \/ /\ entry = "evaluateSearchResults"
          /\ hasApiKey \in BOOLEAN
          /\ \E a \in ResultLists, b \in OtherLists :
                \/ results1 = a /\ results2 = b
                \/ results1 = b /\ results2 = a
       \/ /\ entry = "scoreDataset"
          /\ hasApiKey = TRUE
          /\ results1 \in ResultLists
          /\ results2 = <<>>
    /\ pc = "start"
    /\ phase = 0
    /\ capped = <<>> /\ i = 0 /\ total = 0 /\ counts = ZeroCounts
    /\ errors = 0 /\ durationMs = 0 /\ perDoc = <<>>
    /\ d1 = NoValue /\ d2 = NoValue /\ report = NoValue
    /\ outstanding = 0
    /\ calls = <<>>
    /\ thrown = <<0, 0>>

sdLocals == <<capped, i, total, counts, errors, durationMs, perDoc>>
inputs == <<hasApiKey, entry, results1, results2>>
Slot == IF phase = 2 THEN 2 ELSE 1

\* evaluateSearchResults without a key: the fallback report
EvaluateFallback ==
    /\ pc = "start" /\ entry = "evaluateSearchResults"
    /\ ~hasApiKey
    /\ report' = fallback
    /\ pc' = "done"
    /\ UNCHANGED <<inputs, phase, sdLocals, d1, d2, outstanding, calls, thrown,
                   euVars, parseVars>>

\* evaluateSearchResults with a key: top1, top2, and scoreDataset(query, top1) starts
EvaluateStart ==
    /\ pc = "start" /\ entry = "evaluateSearchResults"
    /\ hasApiKey
    /\ phase' = 1
    /\ EnterScoreDataset(Slice(results1, 0, EVAL_DEPTH))
    /\ pc' = "loop"
    /\ UNCHANGED <<inputs, d1, d2, report, outstanding, calls, thrown, euVars, parseVars>>

\* scoreDataset called by itself on results1
ScoreDatasetStart ==
    /\ pc = "start" /\ entry = "scoreDataset"
    /\ phase' = 0
    /\ EnterScoreDataset(results1)
    /\ pc' = "loop"
    /\ UNCHANGED <<inputs, d1, d2, report, outstanding, calls, thrown, euVars, parseVars>>

\* the loop test holds: scoreOne issues its generateText call and awaits it
JudgeCall ==
    /\ pc = "loop"
    /\ i < Len(capped)
    /\ outstanding' = outstanding + 1
    /\ calls' = Append(calls, [db |-> phase, index |-> i, result |-> capped[i + 1]])
    /\ pc' = "await"
    /\ UNCHANGED <<inputs, phase, sdLocals, d1, d2, report, thrown, euVars, parseVars>>

\* generateText returns a text; scoreOne returns and the loop body runs
JudgeReturns ==
    /\ pc = "await"
    /\ ~JudgeOutcome[capped[i + 1]].threw
    /\ LoopBody(ScoreOneReturned(JudgeOutcome[capped[i + 1]]))
    /\ outstanding' = outstanding - 1
    /\ pc' = "loop"
    /\ UNCHANGED <<inputs, phase, capped, d1, d2, report, calls, thrown, euVars, parseVars>>

\* scoreOne without its try/catch: the error propagates out of the call
JudgeThrows_Propagates ==
    /\ pc = "await"
    /\ JudgeOutcome[capped[i + 1]].threw
    /\ outstanding' = outstanding - 1
    /\ thrown' = [thrown EXCEPT ![Slot] = @ + 1]
    /\ pc' = "threw"
    /\ UNCHANGED <<inputs, phase, sdLocals, d1, d2, report, calls, euVars, parseVars>>

\* scoreOne whose catch block rethrows after logging
JudgeThrows_Rethrows ==
    /\ pc = "await"
    /\ JudgeOutcome[capped[i + 1]].threw
    /\ outstanding' = outstanding - 1
    /\ thrown' = [thrown EXCEPT ![Slot] = @ + 1]
    /\ report' = [exception |-> ErrPrefix \o JudgeOutcome[capped[i + 1]].err]
    /\ pc' = "threw"
    /\ UNCHANGED <<inputs, phase, sdLocals, d1, d2, calls, euVars, parseVars>>

\* scoreOne that issues the call once more after the first failure of a dataset
JudgeThrows_Retries ==
    /\ pc = "await"
    /\ JudgeOutcome[capped[i + 1]].threw
    /\ outstanding' = outstanding - 1
    /\ thrown' = [thrown EXCEPT ![Slot] = @ + 1]
    /\ pc' = "loop"
    /\ IF thrown[Slot] = 0
       THEN UNCHANGED sdLocals
       ELSE /\ LoopBody(ScoreOneCaught(JudgeOutcome[capped[i + 1]]))
            /\ UNCHANGED capped
    /\ UNCHANGED <<inputs, phase, d1, d2, report, calls, euVars, parseVars>>

\* generateText throws; scoreOne catches, returns, and the loop body runs
JudgeThrows ==
    /\ pc = "await"
    /\ JudgeOutcome[capped[i + 1]].threw
    /\ LoopBody(ScoreOneCaught(JudgeOutcome[capped[i + 1]]))
    /\ outstanding' = outstanding - 1
    /\ thrown' = [thrown EXCEPT ![Slot] = @ + 1]
    /\ pc' = "loop"
    /\ UNCHANGED <<inputs, phase, capped, d1, d2, report, calls, euVars, parseVars>>

\* the loop ends: scoreDataset(query, top1) returns d1, scoreDataset(query, top2) starts
ReturnD1 ==
    /\ pc = "loop" /\ phase = 1
    /\ ~(i < Len(capped))
    /\ d1' = DatasetScore
    /\ phase' = 2
    /\ EnterScoreDataset(Slice(results2, 0, EVAL_DEPTH))
    /\ pc' = "loop"
    /\ UNCHANGED <<inputs, d2, report, outstanding, calls, thrown, euVars, parseVars>>

\* the loop ends: scoreDataset(query, top2) returns d2
ReturnD2 ==
    /\ pc = "loop" /\ phase = 2
    /\ ~(i < Len(capped))
    /\ d2' = DatasetScore
    /\ pc' = "assemble"
    /\ UNCHANGED <<inputs, phase, sdLocals, d1, report, outstanding, calls, thrown,
                   euVars, parseVars>>

\* the loop ends: scoreDataset called by itself returns
ReturnAlone ==
    /\ pc = "loop" /\ phase = 0
    /\ ~(i < Len(capped))
    /\ report' = DatasetScore
    /\ pc' = "done"
    /\ UNCHANGED <<inputs, phase, sdLocals, d1, d2, outstanding, calls, thrown,
                   euVars, parseVars>>

\* evaluateSearchResults computes the metrics and returns the report
Assemble ==
    /\ pc = "assemble"
    /\ report' = AssembleReport(d1, d2)
    /\ pc' = "done"
    /\ UNCHANGED <<inputs, phase, sdLocals, d1, d2, outstanding, calls, thrown,
                   euVars, parseVars>>

Next ==
    \/ EvaluateFallback
    \/ EvaluateStart
    \/ ScoreDatasetStart
    \/ JudgeCall
    \/ JudgeReturns
    \/ JudgeThrows
    \/ ReturnD1
    \/ ReturnD2
    \/ ReturnAlone
    \/ Assemble

Spec == Init /\ [][Next]_vars

(***************************************************************************)
(* The properties                                                          *)
(***************************************************************************)
Evaluating == entry = "evaluateSearchResults"
Returned == pc = "done"
InRange0To10(r) == RatGeqInt(r, 0) /\ RatLeqInt(r, 10)

CallsOfPhase == {k \in 1..Len(calls) : calls[k].db = phase}

\* C2: a judge call that throws is recorded as grade 0 for its position, raises
\* the error counter of the dataset by exactly 1 and leaves the loop running; the
\* loop is left only when every item of the capped list has been judged.
C2_FailureIsolated ==
    [][/\ (pc = "await" /\ JudgeOutcome[capped[i + 1]].threw) =>
            /\ perDoc' = Append(perDoc, [index |-> i, score |-> 0])
            /\ errors' = errors + 1
            /\ i' = i + 1 /\ capped' = capped
            /\ pc' = "loop" /\ report' = report
       /\ (pc \in {"loop", "await"} /\ (phase' # phase \/ pc' \notin {"loop", "await"})) =>
            /\ Len(perDoc) = Len(capped)
            /\ \A k \in 0..(Len(capped) - 1) :
                 \E c \in CallsOfPhase : calls[c].index = k
      ]_vars

C2_Witness ==
    /\ pc = "loop" /\ i = Len(capped)
    /\ \E k \in 1..(Len(perDoc) - 1) :
         /\ JudgeOutcome[capped[k]].threw
         /\ perDoc[k].score = 0
         /\ ~JudgeOutcome[capped[k + 1]].threw
         /\ perDoc[k + 1].score = 3
    /\ errors = 1

C4_DepthCap ==
    /\ Len(perDoc) <= EVAL_DEPTH
    /\ \A k \in 1..Len(calls) : calls[k].index < EVAL_DEPTH
    /\ (entry = "scoreDataset" /\ Returned) =>
         LET n == Min(Len(results1), EVAL_DEPTH) IN
         /\ Len(report.perDoc) = n
         /\ Len(calls) = n
         /\ \A k \in 1..n :
              /\ calls[k].index = k - 1
              /\ calls[k].result = results1[k]
              /\ report.perDoc[k].index = k - 1

C4_Witness ==
    /\ entry = "scoreDataset" /\ Returned
    /\ Len(results1) > EVAL_DEPTH
    /\ Len(report.perDoc) = EVAL_DEPTH

WellFormedReport ==
    /\ DOMAIN report = {"db1", "db2", "llmDuration"}
    /\ DOMAIN report.db1 = {"score", "feedback"}
    /\ DOMAIN report.db2 = {"score", "feedback"}
    /\ InRange0To10(report.db1.score) /\ InRange0To10(report.db2.score)
    /\ report.llmDuration \in Nat

\* the guards of the actions: the conditions under which the call has a step to take
CanStep ==
    \/ pc = "start" /\ entry \in {"evaluateSearchResults", "scoreDataset"}
    \/ pc = "loop" /\ (i < Len(capped) \/ phase \in {0, 1, 2})
    \/ pc = "await" /\ (i + 1) \in DOMAIN capped
    \/ pc = "assemble"

\* the steps evaluateSearchResults, called with a credential, has left to take
StepsLeft ==
    LET n1 == Min(Len(results1), EVAL_DEPTH)
        n2 == Min(Len(results2), EVAL_DEPTH)
        inLoop == 2 * (Len(capped) - i) - (IF pc = "await" THEN 1 ELSE 0)
    IN  CASE pc = "start" -> 2 * n1 + 2 * n2 + 4
          [] pc \in {"loop", "await"} /\ phase = 1 -> inLoop + 2 * n2 + 3
          [] pc \in {"loop", "await"} /\ phase = 2 -> inLoop + 2
          [] pc = "assemble" -> 1
          [] pc = "done" -> 0

\* C5: with a credential, every call of evaluateSearchResults eventually
\* returns a report with its two sub-results and a duration; no judge failure or
\* unparsable answer keeps it from returning.  Stated for a call whose ready
\* continuation always runs and whose judge calls all complete or throw: short of
\* the return the call can always take a step, every step leaves one step fewer to
\* take, and the call that has returned has returned a well-formed report.
C5_EventuallyReturns ==
    /\ []((Evaluating /\ hasApiKey) =>
            /\ pc \in {"start", "loop", "await", "assemble", "done"}
            /\ IF Returned THEN WellFormedReport ELSE CanStep)
    /\ [][(Evaluating /\ hasApiKey) => (StepsLeft' = StepsLeft - 1 /\ StepsLeft' >= 0)]_vars

C5_Witness ==
    /\ Evaluating /\ hasApiKey /\ Returned /\ WellFormedReport
    /\ thrown[1] > 0 /\ thrown[2] > 0
    /\ \E k \in 1..Len(results1) : results1[k] = "junk"

(* ---- extractScore ---- *)
GradeOfChunk(c) == CASE c = "g0" -> 0 [] c = "g1" -> 1 [] c = "g2" -> 2 [] c = "g3" -> 3

\* the first piece after position j that is not white space (Len + 1 if none)
RECURSIVE NextNonSpace(_, _)
NextNonSpace(names, j) ==
    IF j + 1 <= Len(names) /\ names[j + 1] \in SpaceChunks
    THEN NextNonSpace(names, j + 1)
    ELSE j + 1

\* piece j is a marker, followed (after optional white space) by one digit 0-3,
\* which ends the text or is followed by a piece that starts with a non-word character
MarkedGradeAt(names, j) ==
    /\ names[j] \in MarkerChunks
    /\ LET q == NextNonSpace(names, j) IN
         /\ q <= Len(names)
         /\ names[q] \in GradeChunks
         /\ (q = Len(names) \/ names[q + 1] \notin WordChunks)
MarkedGrades(names) == {j \in 1..Len(names) : MarkedGradeAt(names, j)}

\* C6 (as amended): extractScore returns the digit g of the leftmost place
\* where the marker (any casing, optional white space) is followed by a digit 0-3
\* that ends the text or is followed by a non-word character, and -1 exactly when
\* there is no such place.
C6_LeftmostMarkedGrade ==
    LET places == MarkedGrades(rawChunks) IN
    IF places = {} THEN parsed = -1
    ELSE LET j == CHOOSE x \in places : \A y \in places : x <= y
         IN  parsed = GradeOfChunk(rawChunks[NextNonSpace(rawChunks, j)])

C6_Witness ==
    /\ Len(rawChunks) = MaxChunks
    /\ rawChunks[1] = "x" /\ rawChunks[2] = "loose" /\ rawChunks[3] = "g2"
    /\ rawChunks[4] = "sp"
    /\ parsed = 2

\* C6 as stated: a text containing "##final score: g" yields g whatever
\* surrounds it; a text with no marker, or with a digit outside 0-3 after the
\* marker, yields -1.
C6_AnySurroundingText ==
    /\ \A j \in 1..(Len(rawChunks) - 1) :
         (rawChunks[j] = "marker" /\ rawChunks[j + 1] \in GradeChunks) =>
             parsed = GradeOfChunk(rawChunks[j + 1])
    /\ (\A j \in 1..Len(rawChunks) : rawChunks[j] \notin MarkerChunks) => parsed = -1
    /\ (\E j \in 1..(Len(rawChunks) - 1) :
           rawChunks[j] \in MarkerChunks /\ rawChunks[j + 1] = "four") => parsed = -1

(* ---- expectedUtilityOutOf10 ---- *)
AllGrade(scores, g) == \A k \in 1..Len(scores) : scores[k] = g

\* C7 (as amended): the sequence of EVAL_DEPTH grades 3 has EU = 10; a
\* sequence of fewer grades, all 3, has EU < 10, the missing positions counting
\* as grade 0.
C7_AllThree ==
    AllGrade(euScores, 3) =>
        /\ Len(euScores) = EVAL_DEPTH => RatEqInt(euValue, 10)
        /\ Len(euScores) < EVAL_DEPTH => ~RatGeqInt(euValue, 10)

C7_Witness ==
    /\ Len(euScores) = EVAL_DEPTH /\ AllGrade(euScores, 3)
    /\ RatEqInt(euValue, 10)

\* C7 as stated: every non-empty sequence of at most EVAL_DEPTH grades, all
\* 3, has EU = 10.
C7_AnyLength ==
    (Len(euScores) >= 1 /\ Len(euScores) <= EVAL_DEPTH /\ AllGrade(euScores, 3)) =>
        RatEqInt(euValue, 10)

\* C8: EU is 10 exactly when each of the EVAL_DEPTH positions holds a grade
\* 3, and 0 exactly when every position holds grade 0 or is absent.
C8_Extremes ==
    /\ InRange0To10(euValue)
    /\ RatEqInt(euValue, 10) <=> (Len(euScores) = EVAL_DEPTH /\ AllGrade(euScores, 3))
    /\ RatEqInt(euValue, 0) <=> AllGrade(euScores, 0)

C8_Witness ==
    /\ Len(euScores) = EVAL_DEPTH
    /\ AllGrade(SubSeq(euScores, 1, EVAL_DEPTH - 1), 0)
    /\ euScores[EVAL_DEPTH] = 1
    /\ ~RatEqInt(euValue, 0)

Raised(scores, k, h) == [scores EXCEPT ![k] = h]

\* C9: replacing the grade at one position by a higher grade, the others
\* unchanged, never lowers EU.
C9_Monotone ==
    \A k \in 1..Len(euScores), h \in Grades :
        h > euScores[k] =>
            RatLeq(euValue, expectedUtilityOutOf10(Raised(euScores, k, h), EVAL_DEPTH))

C9_Witness ==
    /\ Len(euScores) = EVAL_DEPTH
    /\ euScores[1] = 2 /\ euScores[EVAL_DEPTH] = 0
    /\ RatLess(euValue, expectedUtilityOutOf10(Raised(euScores, EVAL_DEPTH, 1), EVAL_DEPTH))

\* C10 as stated: the error counter scoreDataset returns is the number of
\* judged items whose judge call failed; a response that was returned never
\* raises it.
C10_ErrorsCountFailures ==
    /\ d1 # NoValue => d1.errors = thrown[1]
    /\ d2 # NoValue => d2.errors = thrown[2]
    /\ (entry = "scoreDataset" /\ Returned) => report.errors = thrown[1]

(* ---- the trace of judge calls ---- *)
\* the calls scoreDataset number db makes for the list `results`
TraceOf(db, results) ==
    [k \in 1..Min(Len(results), EVAL_DEPTH) |->
        [db |-> db, index |-> k - 1, result |-> results[k]]]
ExpectedTrace == TraceOf(1, results1) \o TraceOf(2, results2)
IsPrefix(p, q) == Len(p) <= Len(q) /\ p = SubSeq(q, 1, Len(p))

RECURSIVE GradeSum(_)
GradeSum(docs) == IF docs = <<>> THEN 0 ELSE Head(docs).score + GradeSum(Tail(docs))
GradeCount(docs, g) == Cardinality({k \in 1..Len(docs) : docs[k].score = g})

\* the aggregates of `agg` agree with its grade list
AggregatesAgree(agg) ==
    /\ \A k \in 1..Len(agg.perDoc) :
         /\ agg.perDoc[k].score \in 0..3
         /\ agg.perDoc[k].index = k - 1
    /\ DOMAIN agg.counts = 0..3
    /\ agg.counts[0] + agg.counts[1] + agg.counts[2] + agg.counts[3] = Len(agg.perDoc)
    /\ \A g \in 0..3 : agg.counts[g] = GradeCount(agg.perDoc, g)
    /\ agg.total = GradeSum(agg.perDoc)

\* C12: after every iteration of the loop of scoreDataset, and in every
\* DatasetScore it returns, each recorded grade is 0, 1, 2 or 3, the entry at
\* position k carries index k (counted from 0), the four counts add up to the
\* number of items judged so far, counts[g] is the number of grades equal to g,
\* and total is the sum of the grades; the feedback reports the same numbers.
C12_AggregatesAgree ==
    /\ AggregatesAgree(DatasetScore)
    /\ Len(perDoc) = i
    /\ d1 # NoValue => AggregatesAgree(d1)
    /\ d2 # NoValue => AggregatesAgree(d2)
    /\ (entry = "scoreDataset" /\ Returned) => AggregatesAgree(report)
    /\ (Evaluating /\ hasApiKey /\ Returned) =>
         /\ report.db1.feedback[1].n = Len(d1.perDoc)
         /\ report.db1.feedback[1].total = GradeSum(d1.perDoc)
         /\ report.db2.feedback[1].n = Len(d2.perDoc)
         /\ report.db2.feedback[1].total = GradeSum(d2.perDoc)

C12_Witness ==
    /\ Evaluating /\ hasApiKey /\ pc = "loop" /\ phase = 2
    /\ Len(d1.perDoc) = EVAL_DEPTH /\ d1.errors > 0 /\ d1.counts[3] > 0
    /\ i = 2 /\ errors = 1 /\ counts[0] = 1 /\ counts[2] = 1 /\ total = 2

(* ---- the two datasets do not interact ---- *)
\* the grade scoreDataset records for a result, from the answer of its judge call
GradeOfResult(x) ==
    IF JudgeOutcome[x].threw THEN 0
    ELSE LET g == extractScore(JudgeOutcome[x].text) IN IF g = -1 THEN 0 ELSE g
FirstTenGrades(results) ==
    [k \in 1..Min(Len(results), EVAL_DEPTH) |-> GradeOfResult(results[k])]
\* pooled sequences other than the one the evaluation builds
OtherPooled == {<<>>, <<0>>, [k \in 1..(2 * EVAL_DEPTH) |-> 3]}

\* C13: the reported score of a dataset is a function of the first ten
\* grades of that dataset alone: it is the same whatever the other dataset
\* holds, however long it is and however its judge calls end, and it is the
\* same whatever the pooled sequence is.
C13_DatasetsIndependent ==
    (Evaluating /\ hasApiKey /\ Returned) =>
        LET s1 == FirstTenGrades(results1)
            s2 == FirstTenGrades(results2)
        IN  /\ RankLabels(d1) = s1
            /\ RankLabels(d2) = s2
            /\ \A q \in OtherPooled \cup {s1 \o s2, s2 \o s1} :
                 /\ report.db1.score = computeMetrics(s1, q).nEU
                 /\ report.db2.score = computeMetrics(s2, q).nEU

C13_Witness ==
    /\ Evaluating /\ hasApiKey /\ Returned
    /\ Len(results1) > EVAL_DEPTH /\ Len(results2) = 2
    /\ d1.errors = 0 /\ d2.errors > 0
    /\ RatEqInt(report.db1.score, 10)
    /\ ~RatEqInt(report.db2.score, 0) /\ ~RatEqInt(report.db2.score, 10)

====
